---- MODULE Spec2Model ----
(***************************************************************************)
(* py_async_dali: the Tridonic USB transceiver (async_dali/tridonic.py),    *)
(* the bus transceiver facade (async_dali/bus_transciever.py) and the       *)
(* address codec (async_dali/address.py, async_dali/types.py).              *)
(*                                                                         *)
(* State: the driver object's fields, the asyncio futures handed to the    *)
(* callers, the packets written to the HID device, the callbacks posted   *)
(* to the event loop by the reader thread, and the reader thread itself;   *)
(* the facade's commissioning calls, the two transceiver registries and    *)
(* the gear and group slots (async_dali/gear.py).                          *)
(***************************************************************************)
EXTENDS Integers, Sequences, FiniteSets, TLC

(***************************************************************************)
(* Bounds of the model.                                                    *)
(***************************************************************************)
\* _send calls in one behaviour of Spec
MaxSends == 2
\* callbacks posted to the event loop and not yet run
MaxQueue == 1
\* _send calls in one behaviour of SpecWrap (more than one turn of the counter)
WrapSends == 257
\* control gears wired to the bus
MaxBusGears == 2
\* calls of commission(), compare() and _commission_search_gear() in one behaviour
MaxCommissionCalls == 2
\* Tridonic adapters that can be plugged into the host
MaxAdapters == 2
\* scan_for_transcievers calls in one behaviour
MaxScans == 3
\* calls of scan_for_gear in one behaviour
MaxGearScans == 2
\* calls of DaliGear.toggle in one behaviour
MaxToggles == 2

(***************************************************************************)
(* Program constants.                                                      *)
(***************************************************************************)
\* tridonic.py:139  "if self.next_sequence > 255"
MaxSequence == 255
\* tridonic.py:140  "self.next_sequence = 1"
FirstSequence == 1
\* tridonic.py:177  bytearray(64)
OutPacketLen == 64
\* tridonic.py:232  self.dev.read(16)
InPacketLen == 16
\* tridonic.py:181  data[2] = 0x20
RepeatTwiceFlag == 32
\* tridonic.py:184/187/189  data[3]
Type16 == 3
Type24 == 4
Type25 == 6
\* address.py:72  DaliBroadcastAddress.ALL / UNADDRESSED
BroadcastCode == 255
\* the result of a future resolved with Python's None
NoneValue == -1
\* bus_transciever.py:160  high = 0xFFFFFF
MaxSearchAddress == 16777215
\* no short address (DALI MASK), as commission() writes it with DTR0 = 0xFF
NoShortAddress == 255
\* bus_transciever.py:49  range(0,64)
NumGearSlots == 64
\* bus_transciever.py:50  range(0,16)
NumGroupSlots == 16

(***************************************************************************)
(* Bit operations on naturals, as Python computes them on ints.            *)
(***************************************************************************)
RECURSIVE BitAnd(_, _)
BitAnd(a, b) ==
    IF a = 0 \/ b = 0 THEN 0
    ELSE (IF a % 2 = 1 /\ b % 2 = 1 THEN 1 ELSE 0) + 2 * BitAnd(a \div 2, b \div 2)

RECURSIVE BitOr(_, _)
BitOr(a, b) ==
    IF a = 0 THEN b
    ELSE IF b = 0 THEN a
    ELSE (IF a % 2 = 1 \/ b % 2 = 1 THEN 1 ELSE 0) + 2 * BitOr(a \div 2, b \div 2)

RECURSIVE Pow2(_)
Pow2(n) == IF n = 0 THEN 1 ELSE 2 * Pow2(n - 1)

Shl(a, n) == a * Pow2(n)

Shr(a, n) == a \div Pow2(n)

(***************************************************************************)
(* types.py: the enumerations.                                             *)
(***************************************************************************)
DaliCommandCode ==
    { 0, 1, 2, 3, 4, 5, 6, 7, 8, 9, 10, 11, 12, 16,
      32, 33, 34, 35, 36, 37, 42, 43, 44, 45, 46, 47, 48,
      64, 80, 96, 112, 128, 129 }
    \cup (144 .. 168) \cup { 170, 176 } \cup (192 .. 197)

SpecialCommandCode ==
    { 161, 165, 167, 169, 171, 173, 177, 179, 181, 183, 185, 187,
      193, 163, 195, 197, 199, 201 }

\* MessageSource: EXTERNAL = 0x11, SELF = 0x12, SENT = 0x13
MessageSource == { 17, 18, 19 }

SourceSelf == 18

SourceExternal == 17

\* tridonic.py MessageType
TypeNak == 113

TypeResponse == 114

TypeTxComplete == 115

TypeBroadcastReceived == 116

TypeFramingError == 119

MessageType == { TypeNak, TypeResponse, TypeTxComplete, TypeBroadcastReceived, TypeFramingError }

\* DaliCommandCode, member by member
DaliCommandCodeByName ==
    [ Off |-> 0, Up |-> 1, Down |-> 2, StepUp |-> 3, StepDown |-> 4, RecallMaxLevel
      |-> 5, RecallMinLevel |-> 6, StepDownAndOff |-> 7, OnAndStepUp |-> 8,
      EnableDAPCSequence |-> 9, GoToLastActiveLevel |-> 10, ContinuousUp |-> 11,
      ContinuousDown |-> 12, GoToScene |-> 16, Reset |-> 32, StoreActualLevelInDTR0
      |-> 33, SavePersistentVariables |-> 34, SetOperatingMode |-> 35,
      ResetMemoryBank |-> 36, IdentifyDevice |-> 37, SetMaxLevel |-> 42, SetMinLevel
      |-> 43, SetSystemFailureLevel |-> 44, SetPowerOnLevel |-> 45, SetFadeTime |->
      46, SetFadeRate |-> 47, SetExtendedFadeTime |-> 48, SetScene |-> 64,
      RemoveFromScene |-> 80, AddToGroup |-> 96, RemoveFromGroup |-> 112,
      SetShortAddress |-> 128, EnableWriteMemory |-> 129, QueryStatus |-> 144,
      QueryControlGearPresent |-> 145, QueryLampFailure |-> 146, QueryLampPowerOn
      |-> 147, QueryLimitError |-> 148, QueryResetState |-> 149,
      QueryMissingShortAddress |-> 150, QueryVersionNumber |-> 151, QueryContentDTR0
      |-> 152, QueryDeviceType |-> 153, QueryPhysicalMinimum |-> 154,
      QueryPowerFailure |-> 155, QueryContentDTR1 |-> 156, QueryContentDTR2 |-> 157,
      QueryOperatingMode |-> 158, QueryLightSourceType |-> 159, QueryActualLevel |->
      160, QueryMaxLevel |-> 161, QueryMinLevel |-> 162, QueryPowerOnLevel |-> 163,
      QuerySystemFailureLevel |-> 164, QueryFadeTimeFadeRate |-> 165,
      QueryManufacturerSpecificMode |-> 166, QueryNextDeviceType |-> 167,
      QueryExtendedFadeTime |-> 168, QueryControlGearFailure |-> 170,
      QuerySceneLevel |-> 176, QueryGroupsZeroToSeven |-> 192,
      QueryGroupsEightToFifteen |-> 193, QueryRandomAddressH |-> 194,
      QueryRandomAddressM |-> 195, QueryRandomAddressL |-> 196, ReadMemoryLocation
      |-> 197 ]

\* SpecialCommandCode, member by member
SpecialCommandCodeByName ==
    [ Terminate |-> 161, Initialise |-> 165, Randomise |-> 167, Compare |-> 169,
      Withdraw |-> 171, Ping |-> 173, SearchAddrH |-> 177, SearchAddrM |-> 179,
      SearchAddrL |-> 181, ProgramShortAddress |-> 183, VerifyShortAddress |-> 185,
      QueryShortAddress |-> 187, EnableDeviceType |-> 193, SetDTR0 |-> 163, SetDTR1
      |-> 195, SetDTR2 |-> 197, WriteMemoryLocation |-> 199,
      WriteMemoryLocationNoReply |-> 201 ]

\* The expression EnumClass.name: the member of that name, or AttributeError
\* when the class has no such member.
getattr(members, name) ==
    IF name \in DOMAIN members
    THEN [raised |-> "", value |-> members[name]]
    ELSE [raised |-> "AttributeError", value |-> 0]

is_special_command(addr_byte) ==
    BitAnd(addr_byte, 128) = 128 /\ BitAnd(addr_byte, 96) # 0

(***************************************************************************)
(* address.py: the three address classes and parse_address.                *)
(***************************************************************************)
DaliGearAddress(addr) == [kind |-> "short", n |-> addr, unaddressed |-> FALSE]

DaliGearGroupAddress(group) == [kind |-> "group", n |-> group, unaddressed |-> FALSE]

DaliBroadcastAddress(unaddressed) == [kind |-> "broadcast", n |-> 0, unaddressed |-> unaddressed]

\* no address: a message that carries none, or parse_address raising DaliException
NoAddress == [kind |-> "none", n |-> 0, unaddressed |-> FALSE]

code(address) ==
    CASE address.kind = "short" -> Shl(address.n, 1)
      [] address.kind = "group" -> BitOr(Shl(address.n, 1), 128)
      [] address.kind = "broadcast" -> BroadcastCode
      [] OTHER -> 0

\* a parse_address that keeps three bits of the group number
parse_address_three_bits(addr_byte) ==
    IF addr_byte = BroadcastCode THEN DaliBroadcastAddress(FALSE)
    ELSE IF BitAnd(addr_byte, 128) # 0
         THEN IF BitAnd(addr_byte, 96) # 0
              THEN NoAddress
              ELSE DaliGearGroupAddress(BitAnd(Shr(addr_byte, 1), 7))
         ELSE DaliGearAddress(Shr(addr_byte, 1))

parse_address(addr_byte) ==
    IF addr_byte = BroadcastCode THEN DaliBroadcastAddress(FALSE)
    ELSE IF BitAnd(addr_byte, 128) # 0
         THEN IF BitAnd(addr_byte, 96) # 0
              THEN NoAddress
              ELSE DaliGearGroupAddress(BitAnd(Shr(addr_byte, 1), 15))
         ELSE DaliGearAddress(Shr(addr_byte, 1))

(***************************************************************************)
(* The state.                                                              *)
(***************************************************************************)
VARIABLES
    opened,                 \* TridonicDali._opened
    stop_listening,         \* TridonicDali._stop_listening (threading.Event)
    dev_closed,             \* the hid.Device was closed by close()
    reader,                 \* the read_loop thread: "none", "running", "dead", "finished"
    next_sequence,          \* TridonicDali.next_sequence
    outstanding_commands,   \* TridonicDali.outstanding_commands: sequence number -> future
    last_command,           \* TridonicDali.last_command (0: not set)
    new_message_callbacks,  \* DaliBusTransciever._new_message_callbacks
    futures,                \* every asyncio.Future _send created, in creation order
    calls,                  \* the _send calls, in the order the callers made them
                            \* (was_open: _opened at the call; seq: the number get_seq
                            \* gave it, 0 if none; sent: its packet was written)
    written,                \* the packets given to dev.write, in order
    loop_queue,             \* callbacks posted with call_soon_threadsafe, not yet run
    loop_errors,            \* exceptions raised by callbacks the event loop ran
    last_read,              \* what the last dev.read of the reader thread gave it
                            \* (recorded in SpecReader only)
    bus,                    \* the control gears wired to the DALI bus
    commission_calls,       \* the calls of commission(), compare() and
                            \* _commission_search_gear(), with how each ended
    attached,               \* serials of the adapters hid.enumerate lists
    tridonic_transceivers,  \* TridonicDali.transceivers
    transcievers,           \* DaliBusTransciever.transcievers
    last_scan,              \* the last scan_for_transcievers call and its result
    devices,                \* DaliBusTransciever.devices: address (the short address
                            \* number), device_type and groups of the 64 DaliGear,
                            \* each by slot
    groups,                 \* DaliBusTransciever.groups: group_members of the 16
                            \* DaliGearGroup, by slot (slot g is Group(g))
    gear_scan,              \* the running or last scan_for_gear call
    address_call,           \* the last call of parse_address or matches_gear, with
                            \* its arguments and what it gave
    toggle_call,            \* the running or last DaliGear.toggle() coroutine
    sending,                \* the _send call the event loop's thread is inside of,
                            \* between dev.write and the lines after it
                            \* (followed in SpecSendOrder only)
    last_correlated         \* the posted message the correlator ran on last
                            \* (recorded in SpecCorrelate only)

driver_vars ==
    << opened, stop_listening, dev_closed, reader, next_sequence, outstanding_commands,
       last_command, new_message_callbacks, futures, calls, written, loop_queue,
       loop_errors >>

commission_vars == << bus, commission_calls >>

registry_vars == << attached, tridonic_transceivers, transcievers, last_scan >>

gear_vars == << devices, groups, gear_scan >>

object_vars == << address_call, toggle_call, sending, last_correlated >>

facade_vars == << commission_vars, registry_vars, gear_vars, object_vars >>

vars == << driver_vars, last_read, facade_vars >>

(***************************************************************************)
(* asyncio.Future, as _send and _resolve_futures use it.                   *)
(***************************************************************************)
PendingFuture == [state |-> "pending", result |-> NoneValue, exception |-> ""]

\* Future.set_result on a pending future
set_result(value) == [state |-> "result", result |-> value, exception |-> ""]

\* Future.set_exception on a pending future
set_exception(name) == [state |-> "exception", result |-> NoneValue, exception |-> name]

\* Future.cancel on a pending future
cancel_future == [state |-> "cancelled", result |-> NoneValue, exception |-> ""]

(***************************************************************************)
(* bus_transciever.py: the typed inbound messages.                         *)
(***************************************************************************)
DaliMessage(kind, source, sequence_number, value, address, command) ==
    [kind |-> kind, source |-> source, sequence_number |-> sequence_number,
     value |-> value, address |-> address, command |-> command]

NakMessage(source, sequence_number) ==
    DaliMessage("NakMessage", source, sequence_number, 0, NoAddress, 0)

NumericResponseMessage(source, sequence_number, value) ==
    DaliMessage("NumericResponseMessage", source, sequence_number, value, NoAddress, 0)

SpecialCommand(source, sequence_number, command, operand) ==
    DaliMessage("SpecialCommand", source, sequence_number, operand, NoAddress, command)

DirectArcPowerCommand(source, sequence_number, address, value) ==
    DaliMessage("DirectArcPowerCommand", source, sequence_number, value, address, 0)

AddressedCommand(source, sequence_number, address, command) ==
    DaliMessage("AddressedCommand", source, sequence_number, 0, address, command)

BadFrame(source, sequence_number) ==
    DaliMessage("BadFrame", source, sequence_number, 0, NoAddress, 0)

NoMessage == DaliMessage("none", 0, 0, 0, NoAddress, 0)

(***************************************************************************)
(* tridonic.py receive(): one read of the device, decoded.                 *)
(* outcome "msg": the message is returned; "none": None is returned (a     *)
(* zero-length read, or a decoding error that was logged); "raise": an     *)
(* exception leaves receive (the device is not open, or the except clause  *)
(* reads direction or message_type before the try block assigned it).      *)
(***************************************************************************)
ReceiveMsg(msg) == [outcome |-> "msg", msg |-> msg]

ReceiveNone == [outcome |-> "none", msg |-> NoMessage]

ReceiveRaise == [outcome |-> "raise", msg |-> NoMessage]

receive(is_opened, data) ==
    IF ~is_opened THEN ReceiveRaise
    ELSE IF DOMAIN data = {} THEN ReceiveNone
    ELSE
      LET mid_byte == data[4]
          low_byte == data[5]
          sequence_number == data[8]
          direction == data[0]
          message_type == data[1]
      IN  IF direction \notin MessageSource \/ message_type \notin MessageType
          THEN ReceiveRaise
          ELSE IF message_type = TypeNak
          THEN ReceiveMsg(NakMessage(direction, sequence_number))
          ELSE IF message_type = TypeResponse
          THEN ReceiveMsg(NumericResponseMessage(direction, sequence_number, low_byte))
          ELSE IF is_special_command(mid_byte)
          THEN IF mid_byte \in SpecialCommandCode
               THEN ReceiveMsg(SpecialCommand(direction, sequence_number, mid_byte, low_byte))
               ELSE ReceiveNone
          ELSE IF BitAnd(mid_byte, 1) = 0
          THEN IF parse_address(mid_byte) = NoAddress
               THEN ReceiveNone
               ELSE ReceiveMsg(DirectArcPowerCommand(direction, sequence_number,
                                                     parse_address(mid_byte), low_byte))
          ELSE IF parse_address(mid_byte) = NoAddress \/ low_byte \notin DaliCommandCode
               THEN ReceiveNone
               ELSE ReceiveMsg(AddressedCommand(direction, sequence_number,
                                                parse_address(mid_byte), low_byte))

(***************************************************************************)
(* tridonic.py _resolve_futures(msg): the correlator callback.             *)
(* raised: the exception the callback ends with ("" when it returns).      *)
(* set_result and set_exception raise InvalidStateError on a future that   *)
(* is not pending, before the del statement is reached.                    *)
(***************************************************************************)
MapRemove(map, key) == [k \in (DOMAIN map) \ {key} |-> map[k]]

\* a correlator that completes the future and keeps its entry
Resolved_keeps_entry(outstanding, futs, sequence_number, outcome) ==
    [outstanding_commands |-> outstanding,
     futures |-> [futs EXCEPT ![outstanding[sequence_number]] = outcome],
     raised |-> ""]

Resolved(outstanding, futs, sequence_number, outcome) ==
    LET future == outstanding[sequence_number]
    IN  IF futs[future].state # "pending"
        THEN [outstanding_commands |-> outstanding, futures |-> futs,
              raised |-> "InvalidStateError"]
        ELSE [outstanding_commands |-> MapRemove(outstanding, sequence_number),
              futures |-> [futs EXCEPT ![future] = outcome],
              raised |-> ""]

\* a correlator that gives an answer to the oldest entry, whatever its number
_resolve_futures_in_order(outstanding, futs, msg) ==
    IF msg.sequence_number \notin DOMAIN outstanding
    THEN [outstanding_commands |-> outstanding, futures |-> futs, raised |-> ""]
    ELSE LET oldest == CHOOSE k \in DOMAIN outstanding :
                           \A j \in DOMAIN outstanding : outstanding[k] <= outstanding[j]
         IN  IF msg.kind = "NumericResponseMessage"
             THEN Resolved(outstanding, futs, oldest, set_result(msg.value))
             ELSE IF msg.kind = "NakMessage"
             THEN Resolved(outstanding, futs, oldest, set_result(NoneValue))
             ELSE [outstanding_commands |-> outstanding, futures |-> futs, raised |-> ""]

\* a correlator that takes any other message for the end of the request
_resolve_futures_any_message(outstanding, futs, msg) ==
    IF msg.sequence_number \notin DOMAIN outstanding
    THEN [outstanding_commands |-> outstanding, futures |-> futs, raised |-> ""]
    ELSE IF msg.kind = "NumericResponseMessage"
    THEN Resolved(outstanding, futs, msg.sequence_number, set_result(msg.value))
    ELSE Resolved(outstanding, futs, msg.sequence_number, set_result(NoneValue))

_resolve_futures(outstanding, futs, msg) ==
    IF msg.sequence_number \notin DOMAIN outstanding
    THEN [outstanding_commands |-> outstanding, futures |-> futs, raised |-> ""]
    ELSE IF msg.kind = "NumericResponseMessage"
    THEN Resolved(outstanding, futs, msg.sequence_number, set_result(msg.value))
    ELSE IF msg.kind = "NakMessage"
    THEN Resolved(outstanding, futs, msg.sequence_number, set_result(NoneValue))
    ELSE IF msg.kind = "BadFrame"
    THEN Resolved(outstanding, futs, msg.sequence_number, set_exception("FramingException"))
    ELSE [outstanding_commands |-> outstanding, futures |-> futs, raised |-> ""]

(***************************************************************************)
(* tridonic.py get_seq() and _send(cmd, length, repeat).                   *)
(***************************************************************************)
\* a counter that wraps as a byte does, through 0
get_seq_through_zero(next_seq) ==
    [newseq |-> next_seq, next_sequence |-> (next_seq + 1) % (MaxSequence + 1)]

get_seq(next_seq) ==
    [newseq |-> next_seq,
     next_sequence |-> IF next_seq + 1 > MaxSequence THEN FirstSequence ELSE next_seq + 1]

\* data[2]
RepeatByte(repeat) == IF repeat = 2 THEN RepeatTwiceFlag ELSE 0

\* data[3]; 0 for a length _send refuses
LengthTag(length) ==
    IF length = 16 THEN Type16
    ELSE IF length = 24 THEN Type24
    ELSE IF length = 25 THEN Type25
    ELSE 0

\* the 64 bytes _send builds for a valid length
OutPacket(seq, cmd, length, repeat) ==
    [i \in 0 .. (OutPacketLen - 1) |->
        CASE i = 0 -> SourceSelf
          [] i = 1 -> seq
          [] i = 2 -> RepeatByte(repeat)
          [] i = 3 -> LengthTag(length)
          [] i = 5 -> IF length = 16 THEN 0 ELSE BitAnd(Shr(cmd, 16), 255)
          [] i = 6 -> BitAnd(Shr(cmd, 8), 255)
          [] i = 7 -> BitAnd(cmd, 255)
          [] OTHER -> 0]

\* a device that sends the newest packet first
DevWrite_newest_first(log, data) == << data >> \o log

\* a repeat done by writing the packet twice
DevWrite_repeat_as_two(log, data) ==
    IF data[2] = 0 THEN Append(log, data) ELSE Append(Append(log, data), data)

\* dev.write(bytes(data))
DevWrite(log, data) == Append(log, data)

\* a _send that takes its sequence number before it looks at _opened
_send_seq_before_open_check(is_opened, next_seq, log, cmd, length, repeat) ==
    LET got == get_seq(next_seq)
    IN  IF ~is_opened
        THEN [response |-> set_exception("Device not open"),
              next_sequence |-> got.next_sequence,
              written |-> log, seq |-> got.newseq, insert |-> FALSE]
        ELSE IF LengthTag(length) = 0
        THEN [response |-> set_exception("Invalid length"),
              next_sequence |-> got.next_sequence,
              written |-> log, seq |-> got.newseq, insert |-> FALSE]
        ELSE [response |-> PendingFuture,
              next_sequence |-> got.next_sequence,
              written |-> DevWrite(log, OutPacket(got.newseq, cmd, length, repeat)),
              seq |-> got.newseq, insert |-> TRUE]

\* What one _send call does: the future it returns, the counter it leaves, the
\* packets it writes, the sequence number it took (0: none) and whether the
\* future is put in outstanding_commands.
_send(is_opened, next_seq, log, cmd, length, repeat) ==
    IF ~is_opened
    THEN [response |-> set_exception("Device not open"), next_sequence |-> next_seq,
          written |-> log, seq |-> 0, insert |-> FALSE]
    ELSE LET got == get_seq(next_seq)
         IN  IF LengthTag(length) = 0
             THEN [response |-> set_exception("Invalid length"),
                   next_sequence |-> got.next_sequence,
                   written |-> log, seq |-> got.newseq, insert |-> FALSE]
             ELSE [response |-> PendingFuture,
                   next_sequence |-> got.next_sequence,
                   written |-> DevWrite(log, OutPacket(got.newseq, cmd, length, repeat)),
                   seq |-> got.newseq, insert |-> TRUE]

(***************************************************************************)
(* bus_transciever.py: the frame each sending method hands to _send.       *)
(***************************************************************************)
send_direct_arc_power_frame(address, level) == BitOr(Shl(code(address), 8), level)

\* a frame without the bit that marks a command
send_cmd_frame_no_command_bit(address, cmd) == BitOr(Shl(code(address), 8), cmd)

send_cmd_frame(address, cmd) == BitOr(BitOr(Shl(code(address), 8), 256), cmd)

send_special_cmd_frame(special_cmd, param) == BitOr(Shl(special_cmd, 8), param)

broadcast_frame(cmd) == BitOr(Shl(255, 8), cmd)

start_quiescent_frame == 16776733

stop_quiescent_frame == 16776734

(***************************************************************************)
(* Initial state: TridonicDali.__init__ (the device handle is given, the   *)
(* driver is not opened, the correlator is the only message callback).     *)
(***************************************************************************)
InitDriver ==
    /\ opened = FALSE
    /\ stop_listening = FALSE
    /\ dev_closed = FALSE
    /\ reader = "none"
    /\ next_sequence = FirstSequence
    /\ outstanding_commands = << >>
    /\ last_command = 0
    /\ new_message_callbacks = << "_resolve_futures" >>
    /\ futures = << >>
    /\ calls = << >>
    /\ written = << >>
    /\ loop_queue = << >>
    /\ loop_errors = {}

\* the reader thread has not read yet
NoRead == [kind |-> "none", data |-> << >>]

\* [DaliGear(self, DaliGearAddress(index)) for index in range(0,64)], with the
\* class attributes device_type = None and groups = 0 of DaliGear
NewDevices ==
    [address |-> [index \in 0 .. (NumGearSlots - 1) |-> DaliGearAddress(index).n],
     device_type |-> [index \in 0 .. (NumGearSlots - 1) |-> NoneValue],
     groups |-> [index \in 0 .. (NumGearSlots - 1) |-> 0]]

\* [DaliGearGroup(self, DaliGearGroupAddress(index), []) for index in range(0,16)]
NewGroups == [index \in 0 .. (NumGroupSlots - 1) |-> << >>]

\* no scan_for_transcievers call yet
NoScan ==
    [n |-> 0, before |-> {}, now |-> {}, added |-> << >>, removed |-> << >>,
     error |-> "", registry |-> << >>]

\* no scan_for_gear call yet
NoGearScan == [state |-> "idle", index |-> 0, error |-> "", n |-> 0]

\* a DaliGear (class "DaliGear") or DaliGearGroup object, as matches_gear reads it
GearObject(class, address, gear_groups) ==
    [class |-> class, address |-> address, groups |-> gear_groups]

NoGearObject == GearObject("none", NoAddress, 0)

\* no parse_address or matches_gear call yet
NoAddressCall ==
    [op |-> "none", addr_byte |-> 0, address |-> NoAddress, raised |-> "", code |-> 0,
     g |-> NoGearObject, matches |-> FALSE]

\* no toggle() call yet.  pc: where the coroutine is ("update_level" and
\* "command": suspended on the future `awaits`); level: DaliGear.level; query:
\* the future of its QueryActualLevel, which is also the number of that call
\* in `calls`.
NoToggle ==
    [pc |-> "idle", n |-> 0, address |-> NoAddress, awaits |-> 0, query |-> 0,
     level |-> 0, error |-> ""]

\* the correlator has not run yet
NoCorrelated == [callback |-> "", msg |-> NoMessage, data |-> << >>]

\* the event loop's thread is not inside _send
NoSending == [pc |-> "idle", seq |-> 0, response |-> 0]

\* bus_transciever.py DaliBusTransciever.__init__, and the two class-level lists
InitFacade ==
    /\ commission_calls = << >>
    /\ attached = {}
    /\ tridonic_transceivers = << >>
    /\ transcievers = << >>
    /\ last_scan = NoScan
    /\ devices = NewDevices
    /\ groups = NewGroups
    /\ gear_scan = NoGearScan
    /\ address_call = NoAddressCall
    /\ toggle_call = NoToggle
    /\ sending = NoSending
    /\ last_correlated = NoCorrelated

Init ==
    /\ InitDriver
    /\ last_read = NoRead
    /\ bus = << >>
    /\ InitFacade

(***************************************************************************)
(* open() and close().                                                     *)
(* The hid.Device is opened by whoever constructs the driver and close()   *)
(* closes it for good: open() on a driver whose device was closed is not   *)
(* a use the model follows.                                                *)
(***************************************************************************)
Open ==
    /\ ~opened
    /\ ~dev_closed
    /\ stop_listening' = FALSE
    /\ opened' = TRUE
    /\ reader' = "running"
    /\ UNCHANGED << dev_closed, next_sequence, outstanding_commands, last_command,
                    new_message_callbacks, futures, calls, written, loop_queue,
                    loop_errors >>
    /\ UNCHANGED << last_read, facade_vars >>

\* close(), also reached through __aexit__
Close ==
    /\ stop_listening' = TRUE
    /\ dev_closed' = TRUE
    /\ opened' = FALSE
    /\ UNCHANGED << reader, next_sequence, outstanding_commands, last_command,
                    new_message_callbacks, futures, calls, written, loop_queue,
                    loop_errors >>
    /\ UNCHANGED << last_read, facade_vars >>

(***************************************************************************)
(* The sending methods.  _send has no suspension point, so one call is one *)
(* step of the event loop's thread.                                        *)
(***************************************************************************)
MapPut(map, key, value) ==
    [k \in (DOMAIN map) \cup {key} |-> IF k = key THEN value ELSE map[k]]

SendStep(api, address, arg, cmd, length, repeat, limit) ==
    /\ Len(calls) < limit
    /\ LET r == _send(opened, next_sequence, written, cmd, length, repeat)
           response == Len(futures) + 1
       IN  /\ futures' = Append(futures, r.response)
           /\ calls' = Append(calls, [api |-> api, address |-> address, arg |-> arg,
                                      cmd |-> cmd, length |-> length, repeat |-> repeat,
                                      was_open |-> opened, seq |-> r.seq,
                                      sent |-> r.insert])
           /\ next_sequence' = r.next_sequence
           /\ written' = r.written
           /\ outstanding_commands' =
                  IF r.insert THEN MapPut(outstanding_commands, r.seq, response)
                  ELSE outstanding_commands
           /\ last_command' = IF r.insert THEN response ELSE last_command
    /\ UNCHANGED << opened, stop_listening, dev_closed, reader, new_message_callbacks,
                    loop_queue, loop_errors >>

\* a sending method called by a caller outside the library
SendCall(api, address, arg, cmd, length, repeat, limit) ==
    /\ SendStep(api, address, arg, cmd, length, repeat, limit)
    /\ UNCHANGED << last_read, facade_vars >>

send_cmd(address, cmd, repeat, limit) ==
    SendCall("send_cmd", address, cmd, send_cmd_frame(address, cmd), 16, repeat, limit)

send_special_cmd(special_cmd, param, repeat, limit) ==
    SendCall("send_special_cmd", NoAddress, special_cmd,
             send_special_cmd_frame(special_cmd, param), 16, repeat, limit)

send_direct_arc_power(address, level, limit) ==
    SendCall("send_direct_arc_power", address, level,
             send_direct_arc_power_frame(address, level), 16, 1, limit)

broadcast(cmd, repeat, limit) ==
    SendCall("broadcast", NoAddress, cmd, broadcast_frame(cmd), 16, repeat, limit)

start_quiescent(limit) ==
    SendCall("start_quiescent", NoAddress, 0, start_quiescent_frame, 25, 2, limit)

stop_quiescent(limit) ==
    SendCall("stop_quiescent", NoAddress, 0, stop_quiescent_frame, 25, 2, limit)

\* _send called directly, with a length of the caller's choice
raw_send(cmd, length, repeat, limit) ==
    SendCall("_send", NoAddress, 0, cmd, length, repeat, limit)

\* The caller cancels the future a send returned (Future.cancel, or the
\* cancellation of the task awaiting it).  Nothing of the driver runs.
Cancel ==
    /\ \E response \in 1 .. Len(futures) :
          /\ futures[response].state = "pending"
          /\ futures' = [futures EXCEPT ![response] = cancel_future]
    /\ UNCHANGED << opened, stop_listening, dev_closed, reader, next_sequence,
                    outstanding_commands, last_command, new_message_callbacks, calls,
                    written, loop_queue, loop_errors >>
    /\ UNCHANGED << last_read, facade_vars >>

(***************************************************************************)
(* read_loop(): the reader thread.                                         *)
(***************************************************************************)
\* the 16 bytes of one inbound packet
InPacket(source, type, mid_byte, low_byte, seq) ==
    [i \in 0 .. (InPacketLen - 1) |->
        CASE i = 0 -> source
          [] i = 1 -> type
          [] i = 4 -> mid_byte
          [] i = 5 -> low_byte
          [] i = 8 -> seq
          [] OTHER -> 0]

\* The except clause of read_loop: evt_loop.run_until_complete(self.close()).
\* With the event loop running (in its own thread) run_until_complete raises
\* RuntimeError out of the except clause and the thread dies; with the loop
\* not running, close() runs here and the while condition ends the thread.
ReaderExcept(loop_running) ==
    IF loop_running
    THEN /\ reader' = "dead"
         /\ UNCHANGED << opened, stop_listening, dev_closed >>
    ELSE /\ reader' = "finished"
         /\ stop_listening' = TRUE
         /\ dev_closed' = TRUE
         /\ opened' = FALSE

\* a reader that posts to the callbacks from the newest to the oldest
Posted_newest_first(queue, callbacks, msg, data) ==
    queue \o [i \in 1 .. Len(callbacks) |->
                 [callback |-> callbacks[Len(callbacks) + 1 - i], msg |-> msg,
                  data |-> data]]

\* for callback in self._new_message_callbacks: call_soon_threadsafe(callback, ret)
\* (data: the packet the message was decoded from, kept with the posted call)
Posted(queue, callbacks, msg, data) ==
    queue \o [i \in 1 .. Len(callbacks) |->
                 [callback |-> callbacks[i], msg |-> msg, data |-> data]]

\* dev.read returns `data`; limit: how many posted calls the model lets wait
ReadPacket(data, limit) ==
    /\ reader = "running"
    /\ opened
    /\ ~dev_closed
    /\ LET ret == receive(opened, data)
       IN  CASE ret.outcome = "msg" ->
                  /\ Len(loop_queue) + Len(new_message_callbacks) <= limit
                  /\ loop_queue' = Posted(loop_queue, new_message_callbacks, ret.msg, data)
                  /\ UNCHANGED << opened, stop_listening, dev_closed, reader >>
             [] ret.outcome = "none" ->
                  UNCHANGED << opened, stop_listening, dev_closed, reader, loop_queue >>
             [] OTHER ->
                  /\ \E loop_running \in BOOLEAN : ReaderExcept(loop_running)
                  /\ UNCHANGED loop_queue
    /\ UNCHANGED << next_sequence, outstanding_commands, last_command,
                    new_message_callbacks, futures, calls, written, loop_errors >>
    /\ UNCHANGED facade_vars

\* dev.read raises (an I/O error, or the device was closed under the read),
\* or receive() finds the driver not open
ReadFail ==
    /\ reader = "running"
    /\ \E loop_running \in BOOLEAN : ReaderExcept(loop_running)
    /\ UNCHANGED << next_sequence, outstanding_commands, last_command,
                    new_message_callbacks, futures, calls, written, loop_queue,
                    loop_errors >>
    /\ UNCHANGED facade_vars

\* while not self._stop_listening.is_set(): the thread sees the flag and ends
ReaderExit ==
    /\ reader = "running"
    /\ stop_listening
    /\ reader' = "finished"
    /\ UNCHANGED << opened, stop_listening, dev_closed, next_sequence,
                    outstanding_commands, last_command, new_message_callbacks, futures,
                    calls, written, loop_queue, loop_errors >>
    /\ UNCHANGED << last_read, facade_vars >>

(***************************************************************************)
(* The event loop runs the oldest posted callback.                         *)
(***************************************************************************)
RunStep ==
    /\ loop_queue # << >>
    /\ LET head == Head(loop_queue)
           r == _resolve_futures(outstanding_commands, futures, head.msg)
       IN  /\ head.callback = "_resolve_futures"
           /\ outstanding_commands' = r.outstanding_commands
           /\ futures' = r.futures
           /\ loop_errors' = IF r.raised = "" THEN loop_errors
                             ELSE loop_errors \cup {r.raised}
    /\ loop_queue' = Tail(loop_queue)
    /\ UNCHANGED << opened, stop_listening, dev_closed, reader, next_sequence,
                    last_command, new_message_callbacks, calls, written >>

RunCallback ==
    /\ RunStep
    /\ UNCHANGED << last_read, facade_vars >>

(***************************************************************************)
(* Spec: the driver with a few callers and a few inbound packets.          *)
(***************************************************************************)
\* Sequence numbers an inbound packet may carry: those the driver has written
\* to the adapter (the adapter echoes them back) and 0 (external traffic).
SentSeqs == { written[i][1] : i \in 1 .. Len(written) }

InPackets ==
    { InPacket(SourceSelf, type, 0, 0, seq) :
          type \in { TypeNak, TypeFramingError }, seq \in SentSeqs }
    \cup { InPacket(SourceSelf, TypeResponse, 0, 127, seq) : seq \in SentSeqs }
    \cup { InPacket(SourceSelf, TypeTxComplete, 7, 0, seq) : seq \in SentSeqs }
    \cup { InPacket(SourceExternal, TypeBroadcastReceived, 255, 0, 0),
           InPacket(SourceExternal, TypeBroadcastReceived, 169, 0, 0),
           InPacket(SourceSelf, 118, 0, 0, 0),
           InPacket(0, TypeNak, 0, 0, 0),
           << >> }

Send(limit) ==
    \/ \E repeat \in { 1, 2 } : send_cmd(DaliGearAddress(3), 0, repeat, limit)
    \/ raw_send(1193046, 8, 2, limit)

Read ==
    /\ \E data \in InPackets : ReadPacket(data, MaxQueue)
    /\ UNCHANGED last_read

ReadError ==
    /\ ReadFail
    /\ UNCHANGED last_read

Next ==
    \/ Open
    \/ Close
    \/ Send(MaxSends)
    \/ Cancel
    \/ Read
    \/ ReadError
    \/ ReaderExit
    \/ RunCallback

Spec == Init /\ [][Next]_vars

(***************************************************************************)
(* SpecWrap: one caller sending the same command again and again, for more *)
(* than a full turn of the sequence counter, while the adapter may answer  *)
(* the first request.  The caller sends once the driver is open.           *)
(***************************************************************************)
SendWrap ==
    /\ opened
    /\ send_cmd(DaliGearAddress(3), 0, 1, WrapSends)

ReadWrap ==
    /\ FirstSequence \in SentSeqs
    /\ ReadPacket(InPacket(SourceSelf, TypeNak, 0, 0, FirstSequence), MaxQueue)
    /\ UNCHANGED last_read

NextWrap ==
    \/ Open
    \/ SendWrap
    \/ ReadWrap
    \/ RunCallback

SpecWrap == Init /\ [][NextWrap]_vars

(***************************************************************************)
(* SpecEncode: one call of a sending method, with every address and every  *)
(* command code, on a driver that is open or not.                          *)
(***************************************************************************)
AllAddresses ==
    { DaliGearAddress(addr) : addr \in 0 .. 63 }
    \cup { DaliGearGroupAddress(group) : group \in 0 .. 15 }
    \cup { DaliBroadcastAddress(unaddressed) : unaddressed \in BOOLEAN }

SendEncode ==
    \/ \E address \in AllAddresses, cmd \in DaliCommandCode, repeat \in { 1, 2 } :
          send_cmd(address, cmd, repeat, 1)
    \/ \E special_cmd \in SpecialCommandCode, param \in { 0, 128, 255 }, repeat \in { 1, 2 } :
          send_special_cmd(special_cmd, param, repeat, 1)
    \/ \E address \in AllAddresses, level \in { 0, 128, 254 } :
          send_direct_arc_power(address, level, 1)
    \/ \E cmd \in DaliCommandCode, repeat \in { 1, 2 } : broadcast(cmd, repeat, 1)
    \/ start_quiescent(1)
    \/ stop_quiescent(1)
    \/ \E length \in { 16, 24, 25, 8 }, repeat \in { 1, 2 } : raw_send(1193046, length, repeat, 1)

NextEncode ==
    \/ Open
    \/ SendEncode

SpecEncode == Init /\ [][NextEncode]_vars

(***************************************************************************)
(* SpecReader: the reader thread, with what each dev.read gave it kept in   *)
(* last_read: a packet (decodable or not), or an exception.  One caller     *)
(* sends one command, so that a handle can be pending when the read fails.  *)
(***************************************************************************)
\* dev.read returned `data`
PacketRead(data) == [kind |-> "packet", data |-> data]

\* dev.read raised
ReadRaised == [kind |-> "error", data |-> << >>]

\* The packets of InPackets (among them one of the unknown type 0x76 and one
\* of the unknown source 0x00), and two more that do not decode: an addressed
\* command whose command byte 0x0d is no DaliCommandCode, and a frame whose
\* address byte 0xe0 is neither a short address, a group address nor a
\* SpecialCommandCode.
InPacketsReader ==
    InPackets
    \cup { InPacket(SourceExternal, TypeBroadcastReceived, 7, 13, 0),
           InPacket(SourceExternal, TypeBroadcastReceived, 224, 0, 0) }

SendReader == send_cmd(DaliGearAddress(3), 0, 1, 1)

ReadLogged ==
    \E data \in InPacketsReader :
        /\ ReadPacket(data, MaxQueue)
        /\ last_read' = PacketRead(data)

ReadFailLogged ==
    /\ ReadFail
    /\ last_read' = ReadRaised

NextReader ==
    \/ Open
    \/ Close
    \/ SendReader
    \/ ReadLogged
    \/ ReadFailLogged
    \/ ReaderExit
    \/ RunCallback

SpecReader == Init /\ [][NextReader]_vars

(***************************************************************************)
(* bus_transciever.py: commission(), compare(), _commission_search_gear()  *)
(* and SearchAddressSender.send().                                         *)
(*                                                                         *)
(* Each of them names its special commands as members of DaliCommandCode   *)
(* (DaliCommandCode.Terminate, .Initialise, .SetDTR0, .Randomise,          *)
(* .Compare, .SearchAddrL/M/H, .ProgramShortAddress, .QueryShortAddress,   *)
(* .Withdraw).  Those members belong to SpecialCommandCode; the attribute  *)
(* access on DaliCommandCode raises AttributeError while the arguments of  *)
(* the first send_special_cmd call are evaluated, before anything is       *)
(* handed to _send.  The statements after that first access never run and  *)
(* have no action here.                                                    *)
(***************************************************************************)
\* one control gear on the bus: its short address (255: none), its 24-bit
\* search address, whether a short address programmed into it is read back
\* unchanged, its device type and its group bitmap
BusGear(short_address, search_address, sticks, device_type, gear_groups) ==
    [short_address |-> short_address, search_address |-> search_address,
     sticks |-> sticks, device_type |-> device_type, groups |-> gear_groups]

\* How a call ended: the exception it raised ("" when it returned), the value
\* it returned, and the frames it handed to _send through send_special_cmd and
\* broadcast, in order, with the repeat argument of each.
CommissionCall(method, arg, first_lookup) ==
    /\ Len(commission_calls) < MaxCommissionCalls
    /\ first_lookup.raised # ""
    /\ commission_calls' =
           Append(commission_calls,
                  [method |-> method, arg |-> arg, was_open |-> opened,
                   error |-> first_lookup.raised, result |-> NoneValue,
                   submitted |-> << >>, repeats |-> << >>])
    /\ UNCHANGED << driver_vars, last_read, bus, registry_vars, gear_vars, object_vars >>

\* SearchAddressSender.send(addr) on a sender that has sent nothing yet
\* (lastL is None, so l != self.lastL): the first lookup is
\* DaliCommandCode.SearchAddrL
SearchAddressSender_send == getattr(DaliCommandCodeByName, "SearchAddrL")

\* compare(search, address_sender): await address_sender.send(search) comes first
compare(search) == CommissionCall("compare", search, SearchAddressSender_send)

\* _commission_search_gear(start): mid = int((low + high) / 2), then compare(mid, sender)
_commission_search_gear(start) ==
    CommissionCall("_commission_search_gear", (start + MaxSearchAddress) \div 2,
                   SearchAddressSender_send)

\* commission(): line 187, await self.send_special_cmd(DaliCommandCode.Terminate, 0),
\* stands before the try statement, so the finally clause is not entered
commission ==
    CommissionCall("commission", 0, getattr(DaliCommandCodeByName, "Terminate"))

(***************************************************************************)
(* SpecCommission: a bus of gears waiting to be commissioned (no short     *)
(* address, search addresses at both ends of the range, equal or not,      *)
(* short addresses that stick or not), and callers of the three methods.   *)
(***************************************************************************)
SearchAddresses == { 0, MaxSearchAddress }

UnaddressedGears ==
    { BusGear(NoShortAddress, search_address, sticks, 6, 0) :
          search_address \in SearchAddresses, sticks \in BOOLEAN }

CommissionBuses ==
    UNION { [1 .. n -> UnaddressedGears] : n \in 0 .. MaxBusGears }

InitCommission ==
    /\ InitDriver
    /\ last_read = NoRead
    /\ bus \in CommissionBuses
    /\ InitFacade

NextCommission ==
    \/ Open
    \/ Close
    \/ commission
    \/ compare(MaxSearchAddress \div 2)
    \/ _commission_search_gear(0)

SpecCommission == InitCommission /\ [][NextCommission]_vars

(***************************************************************************)
(* scan_for_transcievers() and TridonicDali._transciever_scan().           *)
(* An adapter, and the TridonicDali object made for it, is named by its    *)
(* serial number; hid.enumerate lists the attached adapters by ascending   *)
(* serial.  Neither method suspends, so one scan is one step.              *)
(***************************************************************************)
Range(list) == { list[i] : i \in 1 .. Len(list) }

\* hid.enumerate(VENDOR_ID, PRODUCT_ID)
RECURSIVE hid_enumerate(_)
hid_enumerate(serials) ==
    IF serials = {} THEN << >>
    ELSE LET least == CHOOSE x \in serials : \A y \in serials : x <= y
         IN  << least >> \o hid_enumerate(serials \ { least })

\* list.remove(x): the list without the first x, or ValueError
RECURSIVE list_remove(_, _)
list_remove(list, x) ==
    IF list = << >> THEN [list |-> << >>, raised |-> "ValueError"]
    ELSE IF Head(list) = x THEN [list |-> Tail(list), raised |-> ""]
    ELSE LET rest == list_remove(Tail(list), x)
         IN  [list |-> << Head(list) >> \o rest.list, raised |-> rest.raised]

\* the for loop of _transciever_scan over the enumerated adapters
RECURSIVE _transciever_scan_loop(_, _, _, _)
_transciever_scan_loop(enumerated, transceivers, added, removed) ==
    IF enumerated = << >>
    THEN [transceivers |-> transceivers, added |-> added, removed |-> removed,
          raised |-> ""]
    ELSE LET serial == Head(enumerated)
         IN  IF serial \notin Range(transceivers)
             THEN _transciever_scan_loop(Tail(enumerated), Append(transceivers, serial),
                                         Append(added, serial), removed)
             ELSE LET r == list_remove(removed, serial)
                  IN  IF r.raised # ""
                      THEN [transceivers |-> transceivers, added |-> added,
                            removed |-> removed, raised |-> r.raised]
                      ELSE _transciever_scan_loop(Tail(enumerated), transceivers,
                                                  added, r.list)

\* added = [], removed = list(cls.transceivers), then the loop
_transciever_scan(transceivers, serials) ==
    _transciever_scan_loop(hid_enumerate(serials), transceivers, << >>, transceivers)

\* for to_remove in delta.removed: cls.transcievers.remove(to_remove)
RECURSIVE remove_each(_, _)
remove_each(list, removed) ==
    IF removed = << >> THEN [list |-> list, raised |-> ""]
    ELSE LET r == list_remove(list, Head(removed))
         IN  IF r.raised # "" THEN [list |-> list, raised |-> r.raised]
             ELSE remove_each(r.list, Tail(removed))

\* the host sees an adapter plugged in / pulled out
Attach(serial) ==
    /\ serial \notin attached
    /\ attached' = attached \cup { serial }
    /\ UNCHANGED << driver_vars, last_read, commission_vars, tridonic_transceivers,
                    transcievers, last_scan, gear_vars, object_vars >>

Detach(serial) ==
    /\ serial \in attached
    /\ attached' = attached \ { serial }
    /\ UNCHANGED << driver_vars, last_read, commission_vars, tridonic_transceivers,
                    transcievers, last_scan, gear_vars, object_vars >>

\* last_scan keeps, of the call: the adapters attached at the call before and at
\* this one, the delta of _transciever_scan, the exception the call ended with
\* ("" when it returned the delta) and DaliBusTransciever.transcievers after it.
scan_for_transcievers ==
    /\ last_scan.n < MaxScans
    /\ LET delta == _transciever_scan(tridonic_transceivers, attached)
           after == IF delta.raised # ""
                    THEN [list |-> transcievers, raised |-> delta.raised]
                    ELSE remove_each(transcievers \o delta.added, delta.removed)
       IN  /\ tridonic_transceivers' = delta.transceivers
           /\ transcievers' = after.list
           /\ last_scan' = [n |-> last_scan.n + 1, before |-> last_scan.now,
                            now |-> attached, added |-> delta.added,
                            removed |-> delta.removed, error |-> after.raised,
                            registry |-> after.list]
    /\ UNCHANGED << driver_vars, last_read, commission_vars, attached, gear_vars,
                    object_vars >>

(***************************************************************************)
(* SpecScan: adapters come and go, the application scans now and then.     *)
(***************************************************************************)
Serials == 1 .. MaxAdapters

NextScan ==
    \/ \E serial \in Serials : Attach(serial)
    \/ \E serial \in Serials : Detach(serial)
    \/ scan_for_transcievers

SpecScan == Init /\ [][NextScan]_vars

(***************************************************************************)
(* scan_for_gear(), DaliGear.fetch_deviceinfo() and                        *)
(* DaliGearGroup.fetch_deviceinfo().                                       *)
(* What an awaited query yields is what the bus answers: the byte of the   *)
(* gear that holds the short address, None when no gear holds it, and the  *)
(* "Device not open" exception of _send on a driver that is not open.  Of  *)
(* a gear slot the state keeps device_type and groups, of a group slot the *)
(* member list (slot numbers, in list order); the levels, the memory bank  *)
(* fields and the product record that fetch_deviceinfo also stores are     *)
(* left out.  One scan is one step, from the call to its return or its     *)
(* exception.                                                              *)
(***************************************************************************)
\* gear.py GearType
GearType == (0 .. 8) \cup { 128 }

\* the gear of bus b that answers queries sent to Short(index), 0 if none
GearAt(b, index) ==
    IF \E k \in DOMAIN b : b[k].short_address = index
    THEN CHOOSE k \in DOMAIN b : b[k].short_address = index
    ELSE 0

\* DaliGear.fetch_deviceinfo() of slot `index`: the slots after the call and
\* the exception the call ended with.  db_ok: the product database lookup
\* (sqlite file, HTTP request) went through.
fetch_deviceinfo(index, devs, b, db_ok) ==
    LET k == GearAt(b, devs.address[index])
    IN  IF k = 0
        THEN [devices |-> [devs EXCEPT !.device_type[index] = NoneValue], raised |-> ""]
        ELSE IF b[k].device_type \notin GearType
        THEN [devices |-> devs, raised |-> "ValueError"]
        ELSE [devices |-> [devs EXCEPT !.device_type[index] = b[k].device_type,
                                       !.groups[index] = b[k].groups],
              raised |-> IF db_ok THEN "" ELSE "DatabaseError"]

\* for gear in self.devices: await gear.fetch_deviceinfo()
RECURSIVE fetch_each(_, _, _, _)
fetch_each(index, devs, b, db_ok) ==
    IF index = NumGearSlots THEN [devices |-> devs, raised |-> "", index |-> index]
    ELSE LET r == fetch_deviceinfo(index, devs, b, db_ok)
         IN  IF r.raised # ""
             THEN [devices |-> r.devices, raised |-> r.raised, index |-> index]
             ELSE fetch_each(index + 1, r.devices, b, db_ok)

\* the slots of devs from index on whose group bitmap has a bit of bit_mask
RECURSIVE members_from(_, _, _)
members_from(index, devs, bit_mask) ==
    IF index = NumGearSlots THEN << >>
    ELSE (IF BitAnd(devs.groups[index], bit_mask) # 0 THEN << index >> ELSE << >>)
         \o members_from(index + 1, devs, bit_mask)

\* a member list taken with the group number as the mask
group_members_unshifted(devs, group_num) == members_from(0, devs, group_num)

\* bit_mask = 1 << group.address.group_num
\* [g for g in self.devices if g.groups & bit_mask != 0]
group_members(devs, group_num) == members_from(0, devs, Shl(1, group_num))

\* the second loop of scan_for_gear: for group in self.groups: ...
scan_groups(grps, devs) == [group_num \in DOMAIN grps |-> group_members(devs, group_num)]

scan_for_gear(db_ok) ==
    /\ gear_scan.n < MaxGearScans
    /\ IF ~opened
       THEN /\ gear_scan' = [state |-> "raised", index |-> 0,
                             error |-> "Device not open", n |-> gear_scan.n + 1]
            /\ UNCHANGED << devices, groups >>
       ELSE LET r == fetch_each(0, devices, bus, db_ok)
            IN  /\ devices' = r.devices
                /\ groups' = IF r.raised = "" THEN scan_groups(groups, r.devices)
                              ELSE groups
                /\ gear_scan' = [state |-> IF r.raised = "" THEN "returned" ELSE "raised",
                                 index |-> r.index, error |-> r.raised,
                                 n |-> gear_scan.n + 1]
    /\ UNCHANGED << driver_vars, last_read, commission_vars, registry_vars, object_vars >>

(***************************************************************************)
(* SpecGear: a bus whose gears hold short addresses 63, 0, 1, ... or none  *)
(* and belong to group 0 or to groups 0 and 15; the first gear may report  *)
(* a device type GearType does not know.  Gears are rewired between scans. *)
(***************************************************************************)
SlotOf(k) == IF k = 1 THEN NumGearSlots - 1 ELSE k - 2

GearChoices(k) ==
    { BusGear(NoShortAddress, 0, TRUE, 6, 0),
      BusGear(SlotOf(k), 0, TRUE, 6, 1),
      BusGear(SlotOf(k), 0, TRUE, 6, 32769) }
    \cup (IF k = 1 THEN { BusGear(SlotOf(k), 0, TRUE, 9, 0) } ELSE { })

\* somebody rewires or reconfigures gear k
BusChange(k, gear) ==
    /\ bus[k] # gear
    /\ bus' = [bus EXCEPT ![k] = gear]
    /\ UNCHANGED << driver_vars, last_read, commission_calls, registry_vars, gear_vars,
                    object_vars >>

InitGear ==
    /\ InitDriver
    /\ last_read = NoRead
    /\ bus = [k \in 1 .. MaxBusGears |-> BusGear(NoShortAddress, 0, TRUE, 6, 0)]
    /\ InitFacade

NextGear ==
    \/ Open
    \/ Close
    \/ \E k \in 1 .. MaxBusGears : \E gear \in GearChoices(k) : BusChange(k, gear)
    \/ \E db_ok \in BOOLEAN : scan_for_gear(db_ok)

SpecGear == InitGear /\ [][NextGear]_vars

(***************************************************************************)
(* SpecToggle: DaliGear.toggle() on an open or closed driver, with the     *)
(* gear answering the level query (0 or 200), not answering, or the        *)
(* adapter reporting a framing error.  A coroutine suspended on a future   *)
(* resumes in a later step of the event loop, once the future is done.     *)
(***************************************************************************)
\* gear.py: DaliGear._send_cmd(cmd) = transciever.send_cmd(self.address, cmd, 1),
\* called by the toggle coroutine: the call, and the coroutine suspended on
\* the future it returned
gear_send_cmd(cmd, toggle_next) ==
    /\ SendStep("send_cmd", toggle_call.address, cmd,
                send_cmd_frame(toggle_call.address, cmd), 16, 1, 2 * MaxToggles)
    /\ toggle_call' = [toggle_next EXCEPT !.awaits = Len(futures) + 1]

\* a toggle that takes no answer for level 0: `if not level`
toggle_command_falsy(level) ==
    IF level = 0 \/ level = NoneValue THEN DaliCommandCodeByName.GoToLastActiveLevel
    ELSE DaliCommandCodeByName.Off

\* if level == 0: await self.on() else: await self.off()
toggle_command(level) ==
    IF level = 0 THEN DaliCommandCodeByName.GoToLastActiveLevel
    ELSE DaliCommandCodeByName.Off

\* toggle() is called: update_level() sends QueryActualLevel
toggle(address) ==
    /\ toggle_call.pc \in { "idle", "returned", "raised" }
    /\ toggle_call.n < MaxToggles
    /\ LET started == [NoToggle EXCEPT !.pc = "update_level",
                                       !.n = toggle_call.n + 1,
                                       !.address = address,
                                       !.query = Len(futures) + 1,
                                       !.level = toggle_call.level]
       IN  /\ SendStep("send_cmd", address, DaliCommandCodeByName.QueryActualLevel,
                       send_cmd_frame(address, DaliCommandCodeByName.QueryActualLevel),
                       16, 1, 2 * MaxToggles)
           /\ toggle_call' = [started EXCEPT !.awaits = Len(futures) + 1]
    /\ UNCHANGED << last_read, commission_vars, registry_vars, gear_vars, address_call,
                    sending, last_correlated >>

\* the coroutine ends with the exception of the future it awaited
toggle_raises(future) ==
    [toggle_call EXCEPT !.pc = "raised", !.awaits = 0,
                        !.error = IF future.state = "cancelled" THEN "CancelledError"
                                  ELSE future.exception]

\* update_level() resumes: self.level = the result; then on() or off()
toggle_level ==
    /\ toggle_call.pc = "update_level"
    /\ futures[toggle_call.awaits].state # "pending"
    /\ LET future == futures[toggle_call.awaits]
       IN  IF future.state # "result"
           THEN /\ toggle_call' = toggle_raises(future)
                /\ UNCHANGED driver_vars
           ELSE gear_send_cmd(toggle_command(future.result),
                              [toggle_call EXCEPT !.pc = "command",
                                                  !.level = future.result])
    /\ UNCHANGED << last_read, commission_vars, registry_vars, gear_vars, address_call,
                    sending, last_correlated >>

\* on() or off() resumes and toggle() returns
toggle_done ==
    /\ toggle_call.pc = "command"
    /\ futures[toggle_call.awaits].state # "pending"
    /\ LET future == futures[toggle_call.awaits]
       IN  toggle_call' = IF future.state # "result" THEN toggle_raises(future)
                          ELSE [toggle_call EXCEPT !.pc = "returned", !.awaits = 0]
    /\ UNCHANGED << driver_vars, last_read, commission_vars, registry_vars, gear_vars,
                    address_call, sending, last_correlated >>

\* the sequence number of the packet written last
LastSentSeq == IF written = << >> THEN { } ELSE { written[Len(written)][1] }

\* what the adapter may send back for the packet the driver wrote last
InPacketsToggle ==
    { InPacket(SourceSelf, type, 0, 0, seq) :
          type \in { TypeNak, TypeFramingError }, seq \in LastSentSeq }
    \cup { InPacket(SourceSelf, TypeResponse, 0, level, seq) :
              level \in { 0, 200 }, seq \in LastSentSeq }
    \cup { InPacket(SourceSelf, TypeTxComplete, 7, 0, seq) : seq \in LastSentSeq }

ReadToggle ==
    /\ \E data \in InPacketsToggle : ReadPacket(data, MaxQueue)
    /\ UNCHANGED last_read

NextToggle ==
    \/ Open
    \/ Close
    \/ toggle(DaliGearAddress(NumGearSlots - 1))
    \/ toggle_level
    \/ toggle_done
    \/ ReadToggle
    \/ RunCallback

SpecToggle == Init /\ [][NextToggle]_vars

(***************************************************************************)
(* SpecSendOrder: _send line by line.  The reader thread runs beside the   *)
(* event loop's thread, so it can read the adapter's answer as soon as     *)
(* dev.write has returned, while _send is still before its next line.      *)
(* Everything else of the driver runs on the event loop's thread and waits *)
(* until _send has returned.                                               *)
(***************************************************************************)
\* _send up to and including self.dev.write(bytes(data)); a call that is
\* refused (not open, invalid length) returns here
SendWrite(address, cmd, repeat) ==
    /\ sending = NoSending
    /\ Len(calls) < MaxSends
    /\ LET r == _send(opened, next_sequence, written, send_cmd_frame(address, cmd), 16,
                      repeat)
           response == Len(futures) + 1
       IN  /\ futures' = Append(futures, r.response)
           /\ calls' = Append(calls, [api |-> "send_cmd", address |-> address,
                                      arg |-> cmd,
                                      cmd |-> send_cmd_frame(address, cmd),
                                      length |-> 16, repeat |-> repeat,
                                      was_open |-> opened, seq |-> r.seq,
                                      sent |-> r.insert])
           /\ next_sequence' = r.next_sequence
           /\ written' = r.written
           /\ sending' = IF r.insert
                         THEN [pc |-> "written", seq |-> r.seq, response |-> response]
                         ELSE NoSending
    /\ UNCHANGED << opened, stop_listening, dev_closed, reader, outstanding_commands,
                    last_command, new_message_callbacks, loop_queue, loop_errors >>
    /\ UNCHANGED << last_read, commission_vars, registry_vars, gear_vars, address_call,
                    toggle_call, last_correlated >>

\* self.outstanding_commands[seq] = response; self.last_command = response
SendInsert ==
    /\ sending.pc = "written"
    /\ outstanding_commands' = MapPut(outstanding_commands, sending.seq, sending.response)
    /\ last_command' = sending.response
    /\ sending' = NoSending
    /\ UNCHANGED << opened, stop_listening, dev_closed, reader, next_sequence,
                    new_message_callbacks, futures, calls, written, loop_queue,
                    loop_errors >>
    /\ UNCHANGED << last_read, commission_vars, registry_vars, gear_vars, address_call,
                    toggle_call, last_correlated >>

\* the reader thread reads an answer
ReadOrder ==
    /\ \E data \in InPacketsToggle : ReadPacket(data, MaxQueue)
    /\ UNCHANGED last_read

\* the reader thread's read fails; with the event loop inside _send the loop is
\* running
ReadErrorOrder ==
    /\ ReadFail
    /\ sending.pc = "written" => reader' = "dead"
    /\ UNCHANGED last_read

OpenOrder == sending = NoSending /\ Open

CloseOrder == sending = NoSending /\ Close

CancelOrder == sending = NoSending /\ Cancel

RunCallbackOrder == sending = NoSending /\ RunCallback

NextSendOrder ==
    \/ OpenOrder
    \/ CloseOrder
    \/ \E repeat \in { 1, 2 } : SendWrite(DaliGearAddress(3), 0, repeat)
    \/ SendInsert
    \/ CancelOrder
    \/ ReadOrder
    \/ ReadErrorOrder
    \/ ReaderExit
    \/ RunCallbackOrder

SpecSendOrder == Init /\ [][NextSendOrder]_vars

(***************************************************************************)
(* SpecCorrelate: callers with requests pending at the same time on an     *)
(* open driver, the adapter answering them in any order and reporting what *)
(* was sent, and frames of another bus leader; the state keeps the message *)
(* the correlator ran on last.                                             *)
(***************************************************************************)
\* answers and transmit-complete reports for the packets written, and a frame
\* another leader put on the bus
InPacketsCorrelate ==
    { InPacket(SourceSelf, TypeNak, 0, 0, seq) : seq \in SentSeqs }
    \cup { InPacket(SourceSelf, TypeResponse, 0, 127, seq) : seq \in SentSeqs }
    \cup { InPacket(SourceSelf, TypeTxComplete, 7, 0, seq) : seq \in SentSeqs }
    \cup { InPacket(SourceExternal, TypeBroadcastReceived, 7, 0, 0) }

SendCorrelate == send_cmd(DaliGearAddress(3), 0, 1, MaxSends)

ReadCorrelate ==
    /\ \E data \in InPacketsCorrelate : ReadPacket(data, MaxQueue)
    /\ UNCHANGED last_read

RunCallbackLogged ==
    /\ RunStep
    /\ last_correlated' = Head(loop_queue)
    /\ UNCHANGED << last_read, commission_vars, registry_vars, gear_vars, address_call,
                    toggle_call, sending >>

NextCorrelate ==
    \/ Open
    \/ SendCorrelate
    \/ Cancel
    \/ ReadCorrelate
    \/ RunCallbackLogged

SpecCorrelate == Init /\ [][NextCorrelate]_vars

(***************************************************************************)
(* SpecObserve: a caller sends one command (SendReader) and callers        *)
(* register observers with add_message_callback and                        *)
(* take them away with remove_message_callback, both called on the event   *)
(* loop's thread between two reads of the reader thread.  The event loop   *)
(* runs the posted calls oldest first; last_correlated keeps the call it   *)
(* ran last.  An observer is the caller's code: it changes nothing of the  *)
(* driver.                                                                 *)
(***************************************************************************)
MaxObservers == 1

MaxPosted == 4

\* self._new_message_callbacks.append(cb)
add_message_callback(cb) ==
    /\ Len(new_message_callbacks) <= MaxObservers
    /\ new_message_callbacks' = Append(new_message_callbacks, cb)
    /\ UNCHANGED << opened, stop_listening, dev_closed, reader, next_sequence,
                    outstanding_commands, last_command, futures, calls, written,
                    loop_queue, loop_errors >>
    /\ UNCHANGED << last_read, facade_vars >>

\* self._new_message_callbacks.remove(cb), of a callback that is registered:
\* list.remove takes out the first entry equal to cb
remove_message_callback(cb) ==
    /\ \E i \in 1 .. Len(new_message_callbacks) : new_message_callbacks[i] = cb
    /\ LET first == CHOOSE i \in 1 .. Len(new_message_callbacks) :
                        /\ new_message_callbacks[i] = cb
                        /\ \A j \in 1 .. (i - 1) : new_message_callbacks[j] # cb
       IN  new_message_callbacks' =
               SubSeq(new_message_callbacks, 1, first - 1)
               \o SubSeq(new_message_callbacks, first + 1, Len(new_message_callbacks))
    /\ UNCHANGED << opened, stop_listening, dev_closed, reader, next_sequence,
                    outstanding_commands, last_command, futures, calls, written,
                    loop_queue, loop_errors >>
    /\ UNCHANGED << last_read, facade_vars >>

\* the event loop runs a posted call of an observer
RunObserver ==
    /\ loop_queue # << >>
    /\ Head(loop_queue).callback # "_resolve_futures"
    /\ loop_queue' = Tail(loop_queue)
    /\ last_correlated' = Head(loop_queue)
    /\ UNCHANGED << opened, stop_listening, dev_closed, reader, next_sequence,
                    outstanding_commands, last_command, new_message_callbacks, futures,
                    calls, written, loop_errors >>
    /\ UNCHANGED << last_read, commission_vars, registry_vars, gear_vars, address_call,
                    toggle_call, sending >>

\* what the adapter may send back for the packet the driver wrote last, and
\* a frame of another bus master
InPacketsObserve ==
    { InPacket(SourceSelf, TypeNak, 0, 0, seq) : seq \in LastSentSeq }
    \cup { InPacket(SourceSelf, TypeResponse, 0, 127, seq) : seq \in LastSentSeq }
    \cup { InPacket(SourceExternal, TypeBroadcastReceived, 7, 0, 0) }

ReadObserve ==
    /\ \E data \in InPacketsObserve : ReadPacket(data, MaxPosted)
    /\ UNCHANGED last_read

NextObserve ==
    \/ Open
    \/ SendReader
    \/ Cancel
    \/ \E cb \in { "observer" } : add_message_callback(cb)
    \/ \E cb \in { "observer" } : remove_message_callback(cb)
    \/ ReadObserve
    \/ RunCallbackLogged
    \/ RunObserver

SpecObserve == Init /\ [][NextObserve]_vars

(***************************************************************************)
(* SpecAddress: the address classes on their own.  One step is one call of *)
(* parse_address on a byte, followed by .code of what it returned, or one  *)
(* call of matches_gear of an address on a gear or group object.  The      *)
(* calls keep no state, so a behaviour makes one call.                     *)
(***************************************************************************)
\* left == right, by the __eq__ of left's class.  DaliBroadcastAddress has no
\* __eq__: two of its objects are equal only if they are the same object, and
\* the addresses compared here are never that.
address_eq(left, right) ==
    /\ left.kind \in { "short", "group" }
    /\ right.kind = left.kind
    /\ right.n = left.n

\* a group match that takes the group number as the mask
matches_gear_unshifted(address, g) ==
    CASE address.kind = "short" -> address_eq(g.address, address)
      [] address.kind = "group" ->
            address_eq(g.address, address) \/ BitAnd(g.groups, address.n) # 0
      [] address.kind = "broadcast" -> TRUE
      [] OTHER -> FALSE

\* a group match that reads the bitmap only
matches_gear_bitmap_only(address, g) ==
    CASE address.kind = "short" -> address_eq(g.address, address)
      [] address.kind = "group" -> BitAnd(g.groups, Shl(1, address.n)) # 0
      [] address.kind = "broadcast" -> TRUE
      [] OTHER -> FALSE

\* address.matches_gear(g)
matches_gear(address, g) ==
    CASE address.kind = "short" -> address_eq(g.address, address)
      [] address.kind = "group" ->
            address_eq(g.address, address) \/ BitAnd(g.groups, Shl(1, address.n)) # 0
      [] address.kind = "broadcast" -> TRUE
      [] OTHER -> FALSE

\* AbstractDaliAddress.parse_address(addr_byte).code
parse_address_call(addr_byte) ==
    /\ LET address == parse_address(addr_byte)
       IN  address_call' =
               [NoAddressCall EXCEPT
                   !.op = "parse_address",
                   !.addr_byte = addr_byte,
                   !.address = address,
                   !.raised = IF address = NoAddress THEN "DaliException" ELSE "",
                   !.code = IF address = NoAddress THEN 0 ELSE code(address)]
    /\ UNCHANGED << driver_vars, last_read, commission_vars, registry_vars, gear_vars,
                    toggle_call, sending, last_correlated >>

\* address.matches_gear(g)
matches_gear_call(address, g) ==
    /\ address_call' = [NoAddressCall EXCEPT !.op = "matches_gear",
                                             !.address = address,
                                             !.g = g,
                                             !.matches = matches_gear(address, g)]
    /\ UNCHANGED << driver_vars, last_read, commission_vars, registry_vars, gear_vars,
                    toggle_call, sending, last_correlated >>

AddressInputs ==
    { DaliGearAddress(addr) : addr \in 0 .. (NumGearSlots - 1) }
    \cup { DaliGearGroupAddress(group) : group \in 0 .. (NumGroupSlots - 1) }
    \cup { DaliBroadcastAddress(unaddressed) : unaddressed \in BOOLEAN }

\* group bitmaps: none, all, one group, all but one group
BitmapInputs ==
    { 0, 65535 }
    \cup { Shl(1, group) : group \in 0 .. (NumGroupSlots - 1) }
    \cup { 65535 - Shl(1, group) : group \in 0 .. (NumGroupSlots - 1) }

GearInputs ==
    { GearObject("DaliGear", DaliGearAddress(addr), gear_groups) :
          addr \in { 0, 1, 2, NumGearSlots - 1 }, gear_groups \in BitmapInputs }
    \cup { GearObject("DaliGearGroup", DaliGearGroupAddress(group), gear_groups) :
              group \in 0 .. (NumGroupSlots - 1), gear_groups \in BitmapInputs }

\* the one call of a behaviour, on any byte
ParseAddress ==
    /\ address_call = NoAddressCall
    /\ \E addr_byte \in 0 .. 255 : parse_address_call(addr_byte)

\* the one call of a behaviour, on any address and object
MatchesGear ==
    /\ address_call = NoAddressCall
    /\ \E address \in AddressInputs : \E g \in GearInputs : matches_gear_call(address, g)

NextAddress ==
    \/ ParseAddress
    \/ MatchesGear

SpecAddress == Init /\ [][NextAddress]_vars

(***************************************************************************)
(* What the properties below read from the state.                          *)
(***************************************************************************)
\* this step is the event loop running the correlator on the oldest posted message
CorrelatorRuns ==
    /\ loop_queue # << >>
    /\ loop_queue' = Tail(loop_queue)
    /\ Head(loop_queue).callback = "_resolve_futures"

IsSent(call) == call.sent

TookSeq(call) == call.seq # 0

\* the calls whose packet was written, in call order
SentCalls == SelectSeq(calls, IsSent)

\* the place in `written` of the packet of call i
WrittenIndex(i) == Cardinality({ j \in 1 .. i : calls[j].sent })

ValidLengths == { 16, 24, 25 }

(***************************************************************************)
(* The correlator.                                                         *)
(***************************************************************************)
\* C1: when the correlator processes an inbound RESPONSE or NAK packet whose
\* sequence number s has an unresolved handle in the pending map, the handle
\* is resolved with the packet's value byte (RESPONSE) or with None (NAK), and
\* the entry for s is removed from the map.
C1_ResponseResolves ==
    [][ \A s \in DOMAIN outstanding_commands :
          ( /\ CorrelatorRuns
            /\ Head(loop_queue).data[8] = s
            /\ Head(loop_queue).data[1] \in { TypeNak, TypeResponse }
            /\ futures[outstanding_commands[s]].state = "pending" )
          => /\ s \notin DOMAIN outstanding_commands'
             /\ futures'[outstanding_commands[s]] =
                  [state |-> "result",
                   result |-> IF Head(loop_queue).data[1] = TypeResponse
                              THEN Head(loop_queue).data[5] ELSE NoneValue,
                   exception |-> ""] ]_vars

\* one handle resolved with 127 and one with None, their entries gone
C1_Witness ==
    \E i, j \in 1 .. Len(futures) :
        /\ futures[i].state = "result" /\ futures[i].result = 127
        /\ futures[j].state = "result" /\ futures[j].result = NoneValue
        /\ calls[i].seq \notin DOMAIN outstanding_commands
        /\ calls[j].seq \notin DOMAIN outstanding_commands

\* C2: when the correlator processes an inbound framing-error packet (type 0x77)
\* whose sequence number s has an unresolved handle in the pending map, the
\* handle is rejected with FramingException and the entry for s is removed.
C2_FramingErrorRejects ==
    [][ \A s \in DOMAIN outstanding_commands :
          ( /\ CorrelatorRuns
            /\ Head(loop_queue).data[8] = s
            /\ Head(loop_queue).data[1] = TypeFramingError
            /\ futures[outstanding_commands[s]].state = "pending" )
          => /\ s \notin DOMAIN outstanding_commands'
             /\ futures'[outstanding_commands[s]] =
                  [state |-> "exception", result |-> NoneValue,
                   exception |-> "FramingException"] ]_vars

\* C3: every unresolved handle a send put in the pending map is still the
\* map's entry for its sequence number, so no two unresolved handles share a
\* sequence number and none was displaced by a later send.
C3_PendingNotDisplaced ==
    /\ \A i \in 1 .. Len(futures) :
          futures[i].state = "pending"
          => /\ calls[i].seq \in DOMAIN outstanding_commands
             /\ outstanding_commands[calls[i].seq] = i
    /\ \A i, j \in { k \in 1 .. Len(futures) : futures[k].state = "pending" } :
          i # j => calls[i].seq # calls[j].seq

\* C4: the sequence counter stays in 1..255 and the k-th number get_seq hands
\* out is ((k - 1) mod 255) + 1: 1, 2, ..., 255, 1, 2, ...
C4_SequenceCycle ==
    /\ next_sequence \in 1 .. 255
    /\ LET took == SelectSeq(calls, TookSeq)
       IN  /\ Len(took) = Cardinality({ i \in 1 .. Len(calls) :
                                           calls[i].was_open })
           /\ \A k \in 1 .. Len(took) : took[k].seq = ((k - 1) % 255) + 1
           /\ next_sequence = (Len(took) % 255) + 1

\* the counter has gone round: a call took 255 and the next one took 1
C4_Witness ==
    \E k \in 1 .. (Len(calls) - 1) : calls[k].seq = 255 /\ calls[k + 1].seq = 1

\* C5: once the driver is closed no handle is still pending.
C5_CloseRejectsPending ==
    (dev_closed /\ ~opened) => \A i \in 1 .. Len(futures) : futures[i].state # "pending"

\* C6: a cancelled handle has no entry in the pending map, and no callback of
\* the correlator has ended with an error.
C6_CancelDropsEntry ==
    /\ \A s \in DOMAIN outstanding_commands :
          futures[outstanding_commands[s]].state # "cancelled"
    /\ loop_errors = {}

(***************************************************************************)
(* The write path.                                                         *)
(***************************************************************************)
\* C7: the packets written to the adapter are, in order, those of the sends
\* that succeeded, in the order the sends were called: one packet per send,
\* carrying that send's sequence number, repeat flag and frame bytes.
C7_WriteOrder ==
    /\ Len(written) = Len(SentCalls)
    /\ \A k \in 1 .. Len(SentCalls) :
          /\ k <= Len(written)
          /\ written[k][1] = SentCalls[k].seq
          /\ written[k][2] = (IF SentCalls[k].repeat = 2 THEN 32 ELSE 0)
          /\ written[k][6] = (SentCalls[k].cmd \div 256) % 256
          /\ written[k][7] = SentCalls[k].cmd % 256

\* two sends succeeded, the first with the repeat flag, the second without
C7_Witness ==
    /\ Len(written) = 2
    /\ Len(SentCalls) = 2
    /\ SentCalls[1].repeat = 2
    /\ SentCalls[2].repeat = 1

\* C8: a send on a driver that is not open (never opened, or closed) returns
\* a future already rejected with "Device not open", writes no packet, leaves
\* the sequence counter alone and adds nothing to the pending map.
C8_NotOpenSend ==
    [][ (Len(calls') = Len(calls) + 1 /\ ~opened)
        => /\ Len(futures') = Len(futures) + 1
           /\ futures'[Len(futures')] =
                [state |-> "exception", result |-> NoneValue,
                 exception |-> "Device not open"]
           /\ written' = written
           /\ next_sequence' = next_sequence
           /\ outstanding_commands' = outstanding_commands ]_vars

\* a send succeeded, the driver was closed, and a later send was refused
C8_Witness ==
    \E i, j \in 1 .. Len(calls) :
        /\ i < j
        /\ calls[i].sent
        /\ dev_closed
        /\ ~calls[j].was_open
        /\ futures[j].exception = "Device not open"

\* C9: every send on an open driver with a valid frame length writes exactly
\* one packet, whose byte [2] is 0x20 when repeat = 2 and 0x00 when repeat = 1.
C9_RepeatIsOnePacket ==
    /\ Len(written) = Cardinality({ i \in 1 .. Len(calls) :
                                      calls[i].was_open /\ calls[i].length \in ValidLengths })
    /\ \A i \in 1 .. Len(calls) :
          (calls[i].was_open /\ calls[i].length \in ValidLengths)
          => /\ calls[i].sent
             /\ WrittenIndex(i) \in 1 .. Len(written)
             /\ written[WrittenIndex(i)][1] = calls[i].seq
             /\ written[WrittenIndex(i)][2] = (IF calls[i].repeat = 2 THEN 32 ELSE 0)

\* a send with repeat = 2 has written its single packet
C9_Witness ==
    \E i \in 1 .. Len(calls) :
        /\ calls[i].sent
        /\ calls[i].repeat = 2
        /\ Len(written) = 1
        /\ written[1][2] = 32

\* C10: send_cmd(address, c, repeat = 1) on an open driver writes 64 bytes:
\* [0] = 0x12, [1] = the sequence number, [2] = 0, [3] = 3, [5] = 0,
\* [6] = (s << 1) | 1 for Short(s) and 0x80 | (g << 1) | 1 for Group(g),
\* [7] = c, every other byte 0.
C10_SendCmdPacket ==
    \A i \in 1 .. Len(calls) :
        ( /\ calls[i].api = "send_cmd"
          /\ calls[i].was_open
          /\ calls[i].repeat = 1
          /\ calls[i].address.kind \in { "short", "group" } )
        => /\ WrittenIndex(i) \in 1 .. Len(written)
           /\ LET data == written[WrittenIndex(i)]
                  n == calls[i].address.n
              IN  /\ DOMAIN data = 0 .. 63
                  /\ data[0] = 18
                  /\ data[1] = calls[i].seq
                  /\ calls[i].seq \in 1 .. 255
                  /\ data[2] = 0
                  /\ data[3] = 3
                  /\ data[5] = 0
                  /\ data[6] = (IF calls[i].address.kind = "short"
                                THEN 2 * n + 1 ELSE 128 + 2 * n + 1)
                  /\ data[7] = calls[i].arg
                  /\ \A b \in (0 .. 63) \ { 0, 1, 2, 3, 5, 6, 7 } : data[b] = 0

\* send_cmd(Short(3), Off, repeat = 1) has written byte [6] = 0x07
C10_Witness ==
    /\ Len(calls) = 1
    /\ calls[1].api = "send_cmd"
    /\ calls[1].address = DaliGearAddress(3)
    /\ calls[1].arg = 0
    /\ calls[1].repeat = 1
    /\ Len(written) = 1
    /\ written[1][6] = 7
    /\ written[1][7] = 0

(***************************************************************************)
(* The reader thread.                                                      *)
(***************************************************************************)
\* the reader thread's read has just raised
ReadJustRaised == last_read' # last_read /\ last_read' = ReadRaised

\* the reader thread has just read a packet that receive() decodes to no message
UndecodableJustRead ==
    /\ last_read' # last_read
    /\ last_read'.kind = "packet"
    /\ DOMAIN last_read'.data # {}
    /\ receive(TRUE, last_read'.data).outcome # "msg"

\* C17: when the adapter read raises in the reader thread, the driver ends up
\* closed (stop flag set, device closed, not open) and no handle is left pending.
C17_ReadErrorCloses ==
    [][ ReadJustRaised
        => /\ stop_listening'
           /\ dev_closed'
           /\ ~opened'
           /\ \A i \in 1 .. Len(futures') : futures'[i].state # "pending" ]_vars

\* C18: when an inbound packet does not decode, the reader delivers no message
\* for it, stays in its loop to read the next packet, and does not close the
\* driver.
C18_UndecodableIgnored ==
    [][ UndecodableJustRead
        => /\ loop_queue' = loop_queue
           /\ reader' = "running"
           /\ opened' = opened
           /\ dev_closed' = dev_closed
           /\ stop_listening' = stop_listening ]_vars

(***************************************************************************)
(* Commissioning.                                                          *)
(***************************************************************************)
\* the calls of commission() that have ended
CommissionRuns ==
    { i \in 1 .. Len(commission_calls) : commission_calls[i].method = "commission" }

\* the frame of the special command Terminate with parameter 0
TerminateFrame == send_special_cmd_frame(SpecialCommandCodeByName.Terminate, 0)

\* every short address programmed into a gear of the bus is read back unchanged
AllSticks == \A g \in 1 .. Len(bus) : bus[g].sticks

\* C11: on an open driver and a bus of gears that answer every query,
\* commission() ends by returning: its search loop has stopped because no
\* unassigned gear responded, and Terminate is the last frame it sent.
C11_CommissionTerminates ==
    \A i \in CommissionRuns :
        (commission_calls[i].was_open /\ AllSticks)
        => /\ commission_calls[i].error = ""
           /\ commission_calls[i].submitted # << >>
           /\ commission_calls[i].submitted[Len(commission_calls[i].submitted)]
                 = TerminateFrame

\* C14: however commission() ends, the last frame it submitted is Terminate.
C14_TerminateLast ==
    \A i \in CommissionRuns :
        LET submitted == commission_calls[i].submitted
        IN  /\ Len(submitted) > 0
            /\ submitted[Len(submitted)] = TerminateFrame

\* C16: on a bus with a gear whose programmed short address does not read
\* back, commission() ends with the short-address-did-not-stick DALI error.
C16_DidNotStickPropagates ==
    \A i \in CommissionRuns :
        (commission_calls[i].was_open /\ ~AllSticks)
        => commission_calls[i].error = "DaliException"

(***************************************************************************)
(* The transceiver registry.                                               *)
(***************************************************************************)
\* C19: every scan_for_transcievers call returns, without error, as added the
\* adapters attached now and not at the scan before, as removed those attached
\* at the scan before and not now (so an empty delta when nothing changed), and
\* leaves the registry equal to the set of attached adapters.
C19_ScanDelta ==
    last_scan.n > 0
    => /\ last_scan.error = ""
       /\ Range(last_scan.added) = last_scan.now \ last_scan.before
       /\ Range(last_scan.removed) = last_scan.before \ last_scan.now
       /\ Range(last_scan.registry) = last_scan.now

(***************************************************************************)
(* The gear and group slots.                                               *)
(***************************************************************************)
\* bit number `bit` of the bitmap is set
BitSet(bitmap, bit) == (bitmap \div Pow2(bit)) % 2 = 1

\* C20: after scan_for_gear has returned, the member list of every group g in
\* 0..15 holds exactly the slots among the 64 whose group bitmap has bit g
\* set, and the transceiver holds 64 gear slots, slot i addressed Short(i),
\* and 16 group slots.
C20_GroupMembers ==
    gear_scan.state = "returned"
    => /\ DOMAIN devices.address = 0 .. 63
       /\ \A i \in 0 .. 63 : devices.address[i] = DaliGearAddress(i).n
       /\ DOMAIN devices.device_type = 0 .. 63
       /\ DOMAIN devices.groups = 0 .. 63
       /\ DOMAIN groups = 0 .. 15
       /\ \A g \in 0 .. 15 :
             /\ Range(groups[g]) = { i \in 0 .. 63 : BitSet(devices.groups[i], g) }
             /\ Len(groups[g]) = Cardinality(Range(groups[g]))

\* a scan has returned with slots 0 and 63 in group 0 and slot 63 alone in
\* group 15, slot 63 being one whose gear no longer answers
C20_Witness ==
    /\ gear_scan.state = "returned"
    /\ groups[0] = << 0, 63 >>
    /\ groups[15] = << 63 >>
    /\ devices.device_type[63] = NoneValue

\* C21: on a gear object, a group address matches exactly when the gear's
\* group bitmap has the bit of that group, a short address exactly when it is
\* the gear's own address; the broadcast address matches every object.
C21_MatchesGear ==
    address_call.op = "matches_gear"
    => LET address == address_call.address
           g == address_call.g
       IN  /\ address.kind = "broadcast" => address_call.matches
           /\ g.class = "DaliGear" /\ address.kind = "group"
                 => (address_call.matches <=> BitSet(g.groups, address.n))
           /\ g.class = "DaliGear" /\ address.kind = "short"
                 => (address_call.matches <=> g.address = address)

C21_Witness ==
    /\ address_call.op = "matches_gear"
    /\ address_call.address = DaliGearGroupAddress(15)
    /\ address_call.g = GearObject("DaliGear", DaliGearAddress(63), 32768)
    /\ address_call.matches

\* C22: a group address matches the group object that has this address,
\* whatever the object's bitmap, and does not match a group object with another
\* address whose bitmap has the bit of the group clear.
C22_GroupMatchesGroupObject ==
    /\ address_call.op = "matches_gear"
    /\ address_call.g.class = "DaliGearGroup"
    /\ address_call.address.kind = "group"
    => LET address == address_call.address
           g == address_call.g
       IN  /\ g.address.n = address.n => address_call.matches
           /\ g.address.n # address.n /\ ~BitSet(g.groups, address.n)
                 => ~address_call.matches

C22_Witness ==
    /\ address_call.op = "matches_gear"
    /\ address_call.address = DaliGearGroupAddress(1)
    /\ address_call.g = GearObject("DaliGearGroup", DaliGearGroupAddress(1), 0)
    /\ address_call.matches

\* C23 as stated: every byte that parse_address decodes to an address encodes
\* back to itself, parse_address(b).code = b.
C23_RoundTrip ==
    address_call.op = "parse_address" /\ address_call.raised = ""
    => address_call.code = address_call.addr_byte

\* C23 as amended: every byte that parse_address decodes to an address encodes
\* back to itself with bit 0 cleared, and 0xFF to 0xFF.
C23_RoundTripSelectorCleared ==
    address_call.op = "parse_address" /\ address_call.raised = ""
    => address_call.code =
           IF address_call.addr_byte = BroadcastCode THEN BroadcastCode
           ELSE address_call.addr_byte - (address_call.addr_byte % 2)

C23_Witness ==
    /\ address_call.op = "parse_address"
    /\ address_call.addr_byte = 159
    /\ address_call.address = DaliGearGroupAddress(15)
    /\ address_call.code = 158

\* C24: a toggle first sends QueryActualLevel to its gear; it sends at most one
\* more command, only after the query gave a result, to the same gear:
\* GoToLastActiveLevel if the result is 0 and Off otherwise; a toggle that has
\* sent its second command or has returned has sent exactly these two.
C24_ToggleCommands ==
    toggle_call.pc # "idle"
    => LET query == toggle_call.query
       IN  /\ query \in 1 .. Len(calls)
           /\ calls[query].api = "send_cmd"
           /\ calls[query].address = toggle_call.address
           /\ calls[query].arg = DaliCommandCodeByName.QueryActualLevel
           /\ Len(calls) <= query + 1
           /\ toggle_call.pc \in { "command", "returned" } => Len(calls) = query + 1
           /\ Len(calls) = query + 1
                 => /\ futures[query].state = "result"
                    /\ calls[query + 1].api = "send_cmd"
                    /\ calls[query + 1].address = toggle_call.address
                    /\ calls[query + 1].arg =
                          IF futures[query].result = 0
                          THEN DaliCommandCodeByName.GoToLastActiveLevel
                          ELSE DaliCommandCodeByName.Off

\* a gear at level 0 is toggled on, then, at level 200, toggled off
C24_Witness ==
    /\ toggle_call.pc = "returned"
    /\ toggle_call.n = 2
    /\ Len(calls) = 4
    /\ futures[1].result = 0
    /\ calls[2].arg = DaliCommandCodeByName.GoToLastActiveLevel
    /\ futures[3].result = 200
    /\ calls[4].arg = DaliCommandCodeByName.Off
    /\ \A i \in 1 .. 4 : calls[i].sent

\* C25: every packet that has been written and whose future is still pending
\* has its entry in outstanding_commands (the entry is put in before the
\* packet is written).
C25_EntryBeforeWrite ==
    \A k \in 1 .. Len(calls) :
        calls[k].sent /\ futures[k].state = "pending"
        => /\ calls[k].seq \in DOMAIN outstanding_commands
           /\ outstanding_commands[calls[k].seq] = k

\* C26: when the correlator runs on a RESPONSE or NAK packet with sequence
\* number s while two or more requests are pending, the only future that
\* changes is the one of the request sent with sequence number s, and every
\* other entry of the pending map stays as it is.
C26_OnlyOwnRequest ==
    [][ ( /\ CorrelatorRuns
          /\ Head(loop_queue).data[1] \in { TypeNak, TypeResponse }
          /\ Cardinality(DOMAIN outstanding_commands) >= 2 )
        => LET s == Head(loop_queue).data[8]
           IN  /\ \A i \in 1 .. Len(futures) :
                     futures'[i] # futures[i] => calls[i].sent /\ calls[i].seq = s
               /\ \A k \in DOMAIN outstanding_commands \ { s } :
                     /\ k \in DOMAIN outstanding_commands'
                     /\ outstanding_commands'[k] = outstanding_commands[k] ]_vars

\* the second of two pending requests was answered first: it has its result,
\* the first is still pending with its entry
C26_Witness ==
    /\ Len(calls) = 2
    /\ last_correlated.data = InPacket(SourceSelf, TypeResponse, 0, 127, calls[2].seq)
    /\ futures[2] = set_result(127)
    /\ futures[1] = PendingFuture
    /\ outstanding_commands = MapPut(<< >>, calls[1].seq, 1)

\* C27: when the correlator runs on a message that is no RESPONSE, NAK or
\* framing error, or whose sequence number has no entry in the pending map,
\* the pending map, every future and last_command stay as they are and the
\* callback raises nothing.
C27_OtherMessagesIgnored ==
    [][ ( /\ CorrelatorRuns
          /\ \/ Head(loop_queue).data[1] \notin { TypeNak, TypeResponse, TypeFramingError }
             \/ Head(loop_queue).data[8] \notin DOMAIN outstanding_commands )
        => /\ outstanding_commands' = outstanding_commands
           /\ futures' = futures
           /\ last_command' = last_command
           /\ loop_errors' = loop_errors ]_vars

\* the correlator ran on the transmit-complete report of a request that is
\* still pending
C27_Witness ==
    /\ last_correlated.data # << >>
    /\ last_correlated.data[1] = TypeTxComplete
    /\ last_correlated.data[8] \in DOMAIN outstanding_commands
    /\ futures[outstanding_commands[last_correlated.data[8]]] = PendingFuture

(***************************************************************************)
(* Commissioning: the search and the frames.                               *)
(***************************************************************************)
\* the lowest search address on the bus (no gear of SpecCommission is withdrawn)
LowestSearchAddress ==
    CHOOSE a \in { bus[g].search_address : g \in 1 .. Len(bus) } :
        \A g \in 1 .. Len(bus) : a <= bus[g].search_address

\* C28: on an open driver, _commission_search_gear(0) returns the lowest search
\* address on the bus if exactly one gear holds it, raises SearchAddressClash
\* if two or more gears hold it, and returns none if the bus has no gear.
C28_SearchResult ==
    \A i \in 1 .. Len(commission_calls) :
        LET call == commission_calls[i]
        IN  ( /\ call.method = "_commission_search_gear"
              /\ call.arg = MaxSearchAddress \div 2
              /\ call.was_open )
            => IF Len(bus) = 0
               THEN call.error = "" /\ call.result = NoneValue
               ELSE IF Cardinality({ g \in 1 .. Len(bus) :
                                       bus[g].search_address = LowestSearchAddress }) = 1
               THEN call.error = "" /\ call.result = LowestSearchAddress
               ELSE call.error = "SearchAddressClashException"

\* the frames commission() is to submit up to Randomise
CommissionPreamble ==
    << TerminateFrame,
       send_special_cmd_frame(SpecialCommandCodeByName.Initialise, 0),
       send_special_cmd_frame(SpecialCommandCodeByName.SetDTR0, NoShortAddress),
       broadcast_frame(DaliCommandCodeByName.SetShortAddress),
       send_special_cmd_frame(SpecialCommandCodeByName.SetDTR0, 128),
       broadcast_frame(DaliCommandCodeByName.SetOperatingMode) >>
    \o [g \in 1 .. NumGroupSlots |->
           broadcast_frame(BitOr(DaliCommandCodeByName.RemoveFromGroup, g - 1))]
    \o << send_special_cmd_frame(SpecialCommandCodeByName.Randomise, 0) >>

\* the repeat argument of each of them
CommissionPreambleRepeats ==
    << 1, 2, 1, 2, 1, 2 >> \o [g \in 1 .. NumGroupSlots |-> 2] \o << 2 >>

\* C29: commission() on an open driver submits, first and in this order,
\* Terminate, Initialise (twice), SetDTR0(0xFF), broadcast SetShortAddress
\* (twice), SetDTR0(128), broadcast SetOperatingMode (twice), broadcast
\* RemoveFromGroup|g (twice) for g = 0..15 ascending, Randomise (twice).
C29_CommissionOrder ==
    \A i \in CommissionRuns :
        commission_calls[i].was_open
        => /\ Len(commission_calls[i].submitted) >= Len(CommissionPreamble)
           /\ SubSeq(commission_calls[i].submitted, 1, Len(CommissionPreamble))
                 = CommissionPreamble
           /\ SubSeq(commission_calls[i].repeats, 1, Len(CommissionPreamble))
                 = CommissionPreambleRepeats

\* C30: the first compare of a search, on an open driver, sends the three
\* bytes of the search address and then Compare, so that the search address
\* on the bus is the requested value when Compare is sent.
C30_SearchAddressSent ==
    \A i \in 1 .. Len(commission_calls) :
        LET call == commission_calls[i]
        IN  ( /\ call.method \in { "compare", "_commission_search_gear" }
              /\ call.was_open )
            => /\ Len(call.submitted) >= 4
               /\ SubSeq(call.submitted, 1, 4) =
                     << send_special_cmd_frame(SpecialCommandCodeByName.SearchAddrL,
                                               BitAnd(call.arg, 255)),
                        send_special_cmd_frame(SpecialCommandCodeByName.SearchAddrM,
                                               BitAnd(Shr(call.arg, 8), 255)),
                        send_special_cmd_frame(SpecialCommandCodeByName.SearchAddrH,
                                               BitAnd(Shr(call.arg, 16), 255)),
                        send_special_cmd_frame(SpecialCommandCodeByName.Compare, 0) >>

(***************************************************************************)
(* The two threads.                                                        *)
(***************************************************************************)
\* a step of the reader thread: it has read a packet or met an exception,
\* posted callbacks to the event loop, or left read_loop
ReaderThreadStep ==
    /\ reader = "running"
    /\ \/ last_read' # last_read
       \/ reader' # "running"
       \/ Len(loop_queue') > Len(loop_queue)

\* C31: the reader thread never changes the opened flag, the device handle,
\* the pending map, the sequence counter or the observer list; each message
\* it decodes is posted to the event loop, one call per registered callback.
C31_ReaderMutatesNothing ==
    [][ ReaderThreadStep
        => /\ UNCHANGED << opened, dev_closed, outstanding_commands, next_sequence,
                           new_message_callbacks >>
           /\ ( /\ last_read' # last_read
                /\ last_read'.kind = "packet"
                /\ receive(opened, last_read'.data).outcome = "msg" )
              => Len(loop_queue') = Len(loop_queue) + Len(new_message_callbacks) ]_vars

\* the reader thread has just read a command frame (a packet of a known
\* source that is neither a NAK nor a response) whose address byte is b
CommandFrameJustRead(b) ==
    /\ last_read' # last_read
    /\ last_read'.kind = "packet"
    /\ DOMAIN last_read'.data # {}
    /\ last_read'.data[0] \in MessageSource
    /\ last_read'.data[1] \in MessageType \ { TypeNak, TypeResponse }
    /\ last_read'.data[4] = b

\* C32: the address byte of a received command frame is either a special
\* command byte or parses to an address, never both and never neither, and
\* a command frame whose address byte is 0xFF is posted as a message
\* addressed to the broadcast address.
C32_AddressBytePartition ==
    [][ \A b \in 0 .. 255 :
          CommandFrameJustRead(b)
          => /\ is_special_command(b) <=> (parse_address(b) = NoAddress)
             /\ b = BroadcastCode
                  => /\ Len(loop_queue') = Len(loop_queue) + Len(new_message_callbacks)
                     /\ loop_queue'[Len(loop_queue')].msg.address.kind = "broadcast" ]_vars

\* C34: after a scan_for_gear call has returned, every member of every
\* group's member list is a present gear: its device_type is not None.
C34_MembersPresent ==
    gear_scan.state = "returned"
    => \A g \in DOMAIN groups :
          \A i \in Range(groups[g]) : devices.device_type[i] # NoneValue

(***************************************************************************)
(* Observers.                                                              *)
(***************************************************************************)
\* the request sent with sequence number s is in the pending map, its future
\* not done
PendingAt(s) ==
    /\ s \in DOMAIN outstanding_commands
    /\ futures[outstanding_commands[s]].state = "pending"

\* C33: the calls posted for a message read go to the end of the event
\* loop's queue, the correlator's call first; the event loop runs the oldest
\* call first; an observer is run right after a call for the same message;
\* and when an observer is run on a response or a NAK, no request is pending
\* under the message's sequence number.
C33_CorrelatorFirst ==
    [][ /\ Len(loop_queue') > Len(loop_queue)
           => LET n == Len(loop_queue)
              IN  /\ SubSeq(loop_queue', 1, n) = loop_queue
                  /\ loop_queue'[n + 1].callback = "_resolve_futures"
                  /\ \A i \in (n + 1) .. Len(loop_queue') :
                        loop_queue'[i].msg = loop_queue'[n + 1].msg
        /\ Len(loop_queue') < Len(loop_queue)
           => LET head == Head(loop_queue)
              IN  /\ loop_queue' = Tail(loop_queue)
                  /\ head.callback # "_resolve_futures"
                     => /\ last_correlated.msg = head.msg
                        /\ head.msg.kind \in { "NumericResponseMessage", "NakMessage" }
                           => ~PendingAt(head.msg.sequence_number) ]_vars

\* an observer has been run on the response to a request, after the
\* correlator gave the response's value to the request's future, while the
\* calls for a later message wait in the queue
C33_Witness ==
    /\ Len(calls) = 1
    /\ last_correlated.callback = "observer"
    /\ last_correlated.msg = NumericResponseMessage(SourceSelf, calls[1].seq, 127)
    /\ futures[1] = set_result(127)
    /\ calls[1].seq \notin DOMAIN outstanding_commands
    /\ Len(loop_queue) >= 2

====
